---- MODULE Spec2Model ----
(***************************************************************************)
(* Model of the Fyrox game plugin `Game` (animation/game/src/lib.rs): the  *)
(* plugin's fields, the host objects it reads and writes through           *)
(* PluginContext (scene container, asynchronous scene loader, graphics     *)
(* context, window, user interface message queue), and one action per      *)
(* Plugin callback.                                                        *)
(*                                                                         *)
(* Conventions.  Option<T> is a sequence of length 0 (None) or 1 (Some).   *)
(* Handle<T> is a natural number, NONE being the default (invalid) handle. *)
(* An f32 is a fixed-point number counted in 1/F32Unit.                    *)
(***************************************************************************)
EXTENDS Integers, Sequences, FiniteSets, TLC

\* ---------------------------------------------------------------- bounds
\* Window dimensions the host reports are drawn from 1..MaxSize.
MaxSize == 2
\* Renderer statistics values are drawn from 0..MaxStat.
MaxStat == 1
\* The count of overlay visibility messages saturates at MaxCount.
MaxCount == 3

\* ------------------------------------------------------------- constants
\* Handle::NONE, what Default::default() yields for a Handle<Scene>.
NONE == 0
\* Fixed-point unit of an f32 value.
F32Unit == 1000
\* Divisor of loading_progress in update.
ProgressDivisor == 100

ScenePath == "data/scene.rgs"

Sizes == [width : 1..MaxSize, height : 1..MaxSize]
Statistics == 0..MaxStat
\* Values ResourceManagerState::loading_progress can report (a percentage).
ProgressValues == {0, 37, 100}

None == <<>>
Some(x) == <<x>>

VARIABLES
    plugin,            \* Option<Game>: None until create_instance has run
    loaders,           \* the AsyncSceneLoaders begun so far (shared loader state)
    scenes,            \* context.scenes: handle -> scene
    resource_manager,  \* texture loader's default import options
    graphics_context,  \* "Uninitialized" or "Initialized"
    quality_settings,  \* Option: renderer quality settings once set
    window,            \* inner size of the host window
    widgets,           \* widgets built in context.user_interface
    sent,              \* messages sent to the user interface by the last callback
    ui,                \* what the messages sent so far add up to
    call               \* the last callback the host made, with its inputs

vars == <<plugin, loaders, scenes, resource_manager, graphics_context,
          quality_settings, window, widgets, sent, ui, call>>

\* ------------------------------------------------------------ conversions
\* `n as f32` for an unsigned integer n.
AsF32(n) == n * F32Unit

\* f32 division x / d for an integral divisor d.
F32Div(x, d) == x \div d

\* format!("{}", statistics)
Format(s) == ToString(s)

\* Handle::is_some
is_some(h) == h # NONE

\* --------------------------------------------------------------- messages
WidgetMessage_width(h, v) ==
    [destination |-> h, direction |-> "ToWidget", kind |-> "Width", value |-> Some(v)]
WidgetMessage_height(h, v) ==
    [destination |-> h, direction |-> "ToWidget", kind |-> "Height", value |-> Some(v)]
WidgetMessage_visibility(h, v) ==
    [destination |-> h, direction |-> "ToWidget", kind |-> "Visibility", value |-> Some(v)]
ProgressBarMessage_progress(h, v) ==
    [destination |-> h, direction |-> "ToWidget", kind |-> "Progress", value |-> Some(v)]
TextMessage_text(h, v) ==
    [destination |-> h, direction |-> "ToWidget", kind |-> "Text", value |-> Some(v)]


\* ------------------------------------------------- host objects and helpers
\* What a callback works on: the plugin (self), the parts of PluginContext it
\* can change, and a record of what it did (messages sent, polls, log lines).
Frame(self) ==
    [self |-> self, loaders |-> loaders, scenes |-> scenes, sent |-> <<>>,
     fetch_calls |-> 0, fetched |-> None, logged |-> <<>>, added |-> None]

\* context.user_interface.send_message(m)
send_message(c, m) == [c EXCEPT !.sent = Append(@, m)]

\* AsyncSceneLoader::begin_loading: a new loader whose task is still running.
begin_loading(path) == [path |-> path, finished |-> FALSE, scene |-> None]

\* AsyncSceneLoader::fetch_result: hands the result out of the shared loader
\* state (an owned Scene), leaving nothing behind.
fetch_result(l) == [result |-> l.scene, loader |-> [l EXCEPT !.scene = None]]

\* context.scenes.add(scene): the scene goes to the first free slot.
FreeHandle(sc) == CHOOSE h \in 1..(Cardinality(DOMAIN sc) + 1) : h \notin DOMAIN sc
scenes_add(sc, scene) ==
    [handle |-> FreeHandle(sc), scenes |-> sc @@ (FreeHandle(sc) :> scene)]

\* What one message changes in the record of the messages sent so far.
Deliver(u, m) ==
    IF m.destination = "overlay_grid" /\ m.kind = "Width"
        THEN [u EXCEPT !.overlay_width = m.value]
    ELSE IF m.destination = "overlay_grid" /\ m.kind = "Height"
        THEN [u EXCEPT !.overlay_height = m.value]
    ELSE IF m.kind = "Visibility"
        THEN [u EXCEPT !.visibility_sent = IF @ < MaxCount THEN @ + 1 ELSE @]
    ELSE u

RECURSIVE DeliverAll(_, _)
DeliverAll(u, msgs) ==
    IF msgs = <<>> THEN u ELSE DeliverAll(Deliver(u, Head(msgs)), Tail(msgs))

\* ------------------------------------------------------------- Game::new
\* Variant: the loader is kept although an override scene was supplied.
new_always_loader(override_scene) ==
    [scene |-> IF is_some(override_scene) THEN override_scene ELSE NONE,
     loader |-> Some(Len(loaders) + 1),
     progress_bar |-> "progress_bar",
     overlay_grid |-> "overlay_grid",
     debug_text |-> "debug_text"]

new(override_scene) ==
    LET loader == IF is_some(override_scene) THEN None ELSE Some(Len(loaders) + 1)
        scene == IF is_some(override_scene) THEN override_scene ELSE NONE
    IN [scene |-> scene,
        loader |-> loader,
        progress_bar |-> "progress_bar",
        overlay_grid |-> "overlay_grid",
        debug_text |-> "debug_text"]

\* The loaders after Game::new: one more exactly when there is no override.
new_loaders(override_scene) ==
    IF is_some(override_scene) THEN loaders
    ELSE Append(loaders, begin_loading(ScenePath))

\* ----------------------------------------------------- Game::handle_resize
\* Variant: the two components are swapped.
handle_resize_swapped(c, new_size) ==
    LET c1 == send_message(c, WidgetMessage_width(c.self.overlay_grid, new_size.y))
    IN send_message(c1, WidgetMessage_height(c.self.overlay_grid, new_size.x))

handle_resize(c, new_size) ==
    LET c1 == send_message(c, WidgetMessage_width(c.self.overlay_grid, new_size.x))
    IN send_message(c1, WidgetMessage_height(c.self.overlay_grid, new_size.y))

\* ------------------------------------------------------------ Game::update
\* Variant: the overlay is hidden for any result, Err included.
update_poll_hide_any(c) ==
    IF c.self.loader = None THEN c
    ELSE
        LET id == c.self.loader[1]
            f == fetch_result(c.loaders[id])
            c1 == [c EXCEPT !.loaders[id] = f.loader,
                            !.fetch_calls = @ + 1,
                            !.fetched = f.result]
            c3 == IF f.result = None THEN c1
                  ELSE IF f.result[1][1] = "Ok" THEN
                      LET a == scenes_add(c1.scenes, f.result[1][2])
                      IN [c1 EXCEPT !.scenes = a.scenes,
                                    !.self.scene = a.handle,
                                    !.added = Some(a.handle)]
                  ELSE [c1 EXCEPT !.logged = Append(@, f.result[1][2])]
        IN IF f.result = None THEN c3
           ELSE send_message(c3, WidgetMessage_visibility(c3.self.overlay_grid, FALSE))

\* Variant: the overlay is hidden on every poll, whatever fetch_result returns.
update_poll_hide_always(c) ==
    IF c.self.loader = None THEN c
    ELSE
        LET id == c.self.loader[1]
            f == fetch_result(c.loaders[id])
            c1 == [c EXCEPT !.loaders[id] = f.loader,
                            !.fetch_calls = @ + 1,
                            !.fetched = f.result]
            c3 == IF f.result = None THEN c1
                  ELSE IF f.result[1][1] = "Ok" THEN
                      LET a == scenes_add(c1.scenes, f.result[1][2])
                      IN [c1 EXCEPT !.scenes = a.scenes,
                                    !.self.scene = a.handle,
                                    !.added = Some(a.handle)]
                  ELSE [c1 EXCEPT !.logged = Append(@, f.result[1][2])]
        IN send_message(c3, WidgetMessage_visibility(c3.self.overlay_grid, FALSE))

\* Variant: the scene is added on Ok but the overlay is left shown.
update_poll_no_hide(c) ==
    IF c.self.loader = None THEN c
    ELSE
        LET id == c.self.loader[1]
            f == fetch_result(c.loaders[id])
            c1 == [c EXCEPT !.loaders[id] = f.loader,
                            !.fetch_calls = @ + 1,
                            !.fetched = f.result]
        IN  IF f.result = None THEN c1
            ELSE IF f.result[1][1] = "Ok" THEN
                LET a == scenes_add(c1.scenes, f.result[1][2])
                IN [c1 EXCEPT !.scenes = a.scenes,
                              !.self.scene = a.handle,
                              !.added = Some(a.handle)]
            ELSE [c1 EXCEPT !.logged = Append(@, f.result[1][2])]

\* Variant: the loader is polled only until a scene has been set.
update_poll_until_loaded(c) ==
    IF c.self.loader = None \/ is_some(c.self.scene) THEN c
    ELSE
        LET id == c.self.loader[1]
            f == fetch_result(c.loaders[id])
            c1 == [c EXCEPT !.loaders[id] = f.loader,
                            !.fetch_calls = @ + 1,
                            !.fetched = f.result]
        IN  IF f.result = None THEN c1
            ELSE IF f.result[1][1] = "Ok" THEN
                LET a == scenes_add(c1.scenes, f.result[1][2])
                    c2 == [c1 EXCEPT !.scenes = a.scenes,
                                     !.self.scene = a.handle,
                                     !.added = Some(a.handle)]
                IN send_message(c2,
                       WidgetMessage_visibility(c2.self.overlay_grid, FALSE))
            ELSE [c1 EXCEPT !.logged = Append(@, f.result[1][2])]

\* Lines 139-156: poll the loader, add the scene and hide the overlay on Ok,
\* log on Err.
update_poll(c) ==
    IF c.self.loader = None THEN c
    ELSE
        LET id == c.self.loader[1]
            f == fetch_result(c.loaders[id])
            c1 == [c EXCEPT !.loaders[id] = f.loader,
                            !.fetch_calls = @ + 1,
                            !.fetched = f.result]
        IN  IF f.result = None THEN c1
            ELSE IF f.result[1][1] = "Ok" THEN
                LET a == scenes_add(c1.scenes, f.result[1][2])
                    c2 == [c1 EXCEPT !.scenes = a.scenes,
                                     !.self.scene = a.handle,
                                     !.added = Some(a.handle)]
                IN send_message(c2,
                       WidgetMessage_visibility(c2.self.overlay_grid, FALSE))
            ELSE [c1 EXCEPT !.logged = Append(@, f.result[1][2])]

\* Variant: the percentage is sent as it is, not divided by 100.
update_progress_undivided(c, loading_progress) ==
    send_message(c,
        ProgressBarMessage_progress(c.self.progress_bar, AsF32(loading_progress)))

\* Lines 158-165: the progress message.
update_progress(c, loading_progress) ==
    LET progress == F32Div(AsF32(loading_progress), ProgressDivisor)
    IN send_message(c, ProgressBarMessage_progress(c.self.progress_bar, progress))

\* Variant: the statistics are shown only once a scene is set.
update_statistics_when_loaded(c, gc, statistics) ==
    IF gc = "Initialized" /\ is_some(c.self.scene)
        THEN send_message(c, TextMessage_text(c.self.debug_text, Format(statistics[1])))
        ELSE c

\* Lines 167-173: the statistics text, when there is a renderer.
update_statistics(c, gc, statistics) ==
    IF gc = "Initialized"
        THEN send_message(c, TextMessage_text(c.self.debug_text, Format(statistics[1])))
        ELSE c

\* Variant: an Err result ends update at once.
update_body_return_on_err(self, gc, loading_progress, statistics) ==
    LET c == update_poll(Frame(self))
    IN IF c.logged # <<>> THEN c
       ELSE update_statistics(update_progress(c, loading_progress), gc, statistics)

update_body(self, gc, loading_progress, statistics) ==
    update_statistics(
        update_progress(update_poll(Frame(self)), loading_progress),
        gc, statistics)

\* ------------------------------------------------------- Game::on_os_event
os_event_body(self, event) ==
    IF event.kind = "WindowEvent" /\ event.window_event = "Resized"
        THEN handle_resize(Frame(self),
                 [x |-> AsF32(event.size[1].width), y |-> AsF32(event.size[1].height)])
        ELSE Frame(self)

\* ------------------------------------ Game::on_graphics_context_initialized
QualitySettings_high == [preset |-> "high"]

graphics_quality ==
    [preset |-> QualitySettings_high.preset,
     point_shadows_distance |-> AsF32(6),
     spot_shadows_distance |-> AsF32(6)]

\* Variant: the overlay is not resized when the graphics context appears.
graphics_context_body_no_resize(self, inner_size) == Frame(self)

graphics_context_body(self, inner_size) ==
    handle_resize(Frame(self),
        [x |-> AsF32(inner_size.width), y |-> AsF32(inner_size.height)])

\* ------------------------------------------------------------------ events
Events ==
    {[kind |-> "WindowEvent", window_event |-> "Resized", size |-> Some(s)] : s \in Sizes}
    \cup {[kind |-> "WindowEvent", window_event |-> "CloseRequested", size |-> None],
          [kind |-> "WindowEvent", window_event |-> "Focused", size |-> None],
          [kind |-> "DeviceEvent", window_event |-> "", size |-> None],
          [kind |-> "AboutToWait", window_event |-> "", size |-> None]}

Results == {<<"Ok", ScenePath>>, <<"Err", "VisitError">>}

NoCall ==
    [name |-> "", override_scene |-> None, event |-> None, inner_size |-> None,
     loading_progress |-> None, statistics |-> None,
     fetch_calls |-> 0, fetched |-> None, logged |-> <<>>, added |-> None]

\* The record of a callback that ran on frame c.
Called(name, c) ==
    [NoCall EXCEPT !.name = name, !.fetch_calls = c.fetch_calls,
                   !.fetched = c.fetched, !.logged = c.logged, !.added = c.added]

\* ----------------------------------------------------------------- actions
Init ==
    /\ plugin = None
    /\ loaders = <<>>
    /\ scenes \in {<<>>, <<"editor scene">>}
    /\ resource_manager = [default_import_options |-> None]
    /\ graphics_context = "Uninitialized"
    /\ quality_settings = None
    /\ window \in Sizes
    /\ widgets = {}
    /\ sent = <<>>
    /\ ui = [overlay_width |-> None, overlay_height |-> None, visibility_sent |-> 0]
    /\ call = NoCall

\* GameConstructor::create_instance -> Game::new
create_instance(override_scene) ==
    /\ plugin = None
    /\ plugin' = Some(new(override_scene))
    /\ loaders' = new_loaders(override_scene)
    /\ resource_manager' =
           [default_import_options |->
               Some([anisotropy |-> AsF32(1), compression |-> "Quality"])]
    /\ widgets' = widgets \cup
           {"loading_text", "progress_bar", "stack_panel", "overlay_grid", "debug_text"}
    /\ sent' = <<>>
    /\ call' = [NoCall EXCEPT !.name = "new", !.override_scene = Some(override_scene)]
    /\ UNCHANGED <<scenes, graphics_context, quality_settings, window, ui>>

\* The loader's asynchronous task ends and stores its result.
loading_task(id, result) ==
    /\ id \in DOMAIN loaders
    /\ ~loaders[id].finished
    /\ loaders' = [loaders EXCEPT ![id] = [@ EXCEPT !.finished = TRUE,
                                                    !.scene = Some(result)]]
    /\ UNCHANGED <<plugin, scenes, resource_manager, graphics_context,
                   quality_settings, window, widgets, sent, ui, call>>

\* Plugin::update
update(loading_progress, statistics) ==
    /\ plugin # None
    /\ LET c == update_body(plugin[1], graphics_context, loading_progress, statistics)
       IN /\ plugin' = Some(c.self)
          /\ loaders' = c.loaders
          /\ scenes' = c.scenes
          /\ sent' = c.sent
          /\ ui' = DeliverAll(ui, c.sent)
          /\ call' = [Called("update", c) EXCEPT
                          !.loading_progress = Some(loading_progress),
                          !.statistics = statistics]
    /\ UNCHANGED <<resource_manager, graphics_context, quality_settings, window, widgets>>

\* Plugin::on_os_event
on_os_event(event) ==
    /\ plugin # None
    /\ LET c == os_event_body(plugin[1], event)
       IN /\ plugin' = Some(c.self)
          /\ loaders' = c.loaders
          /\ scenes' = c.scenes
          /\ sent' = c.sent
          /\ ui' = DeliverAll(ui, c.sent)
          /\ call' = [Called("on_os_event", c) EXCEPT !.event = Some(event)]
    \* the host window has the size the event reports
    /\ window' = IF event.window_event = "Resized" THEN event.size[1] ELSE window
    /\ UNCHANGED <<resource_manager, graphics_context, quality_settings, widgets>>

\* Plugin::on_graphics_context_initialized, called by the host right after it
\* has created the graphics context with a window of size inner_size.
on_graphics_context_initialized(inner_size) ==
    /\ plugin # None
    /\ graphics_context = "Uninitialized"
    /\ graphics_context' = "Initialized"
    /\ window' = inner_size
    /\ quality_settings' = Some(graphics_quality)
    /\ LET c == graphics_context_body(plugin[1], inner_size)
       IN /\ plugin' = Some(c.self)
          /\ loaders' = c.loaders
          /\ scenes' = c.scenes
          /\ sent' = c.sent
          /\ ui' = DeliverAll(ui, c.sent)
          /\ call' = [Called("on_graphics_context_initialized", c) EXCEPT
                          !.inner_size = Some(inner_size)]
    /\ UNCHANGED <<resource_manager, widgets>>

\* The statistics the renderer reports, when there is a renderer.
RendererStatistics ==
    IF graphics_context = "Initialized" THEN {Some(x) : x \in Statistics} ELSE {None}

Frames == \E p \in ProgressValues, s \in RendererStatistics : update(p, s)

Next ==
    \/ \E h \in {NONE} \cup DOMAIN scenes : create_instance(h)
    \/ \E id \in DOMAIN loaders, r \in Results : loading_task(id, r)
    \/ Frames
    \/ \E e \in Events : on_os_event(e)
    \/ \E s \in Sizes : on_graphics_context_initialized(s)

Spec == Init /\ [][Next]_vars

\* The host calls update on every frame for as long as it runs.
FairSpec == Spec /\ WF_vars(Frames)

TypeOK ==
    /\ Len(plugin) <= 1
    /\ graphics_context \in {"Uninitialized", "Initialized"}
    /\ window \in Sizes
    /\ ui.visibility_sent \in 0..MaxCount

\* ------------------------------------------------------------ properties
Self == plugin[1]

OkResult == <<"Ok", ScenePath>>
ErrResult == <<"Err", "VisitError">>

\* The messages of the given kind among those sent by the last callback.
SentOfKind(k) == {i \in DOMAIN sent : sent[i].kind = k}
SentTo(h) == {i \in DOMAIN sent : sent[i].destination = h}

\* The handles under which the scene of data/scene.rgs is in the container.
LoadedHandles(sc) == {h \in DOMAIN sc : sc[h] = ScenePath}

ResizedEvent(e) == e.kind = "WindowEvent" /\ e.window_event = "Resized"

\* C1: Game::new begins the asynchronous load exactly when no override scene
\* is supplied: with an override the game has no loader and scene is the
\* override; without one exactly one loader is begun for data/scene.rgs, the
\* game holds it, and scene is the default handle.
C1_NewStartsLoadIffNoOverride ==
    call.name = "new" =>
        LET ov == call.override_scene[1]
        IN IF ov # 0
              THEN /\ Self.loader = None
                   /\ Self.scene = ov
                   /\ Len(loaders) = 0
              ELSE /\ Len(loaders) = 1
                   /\ loaders[1].path = "data/scene.rgs"
                   /\ Self.loader = Some(1)
                   /\ Self.scene = 0

C1_Witness ==
    /\ call.name = "new"
    /\ call.override_scene = Some(0)
    /\ Len(loaders) = 1
    /\ ~loaders[1].finished

\* C2: a visibility message is sent only by an update call in which the
\* loader returned Ok(scene), the scene was added to the container and
\* Game.scene was set to the handle of that add; the message is
\* visibility(false) to overlay_grid.  No other callback sends one.
C2_HideOnlyOnSuccessfulLoad ==
    [][ui'.visibility_sent # ui.visibility_sent =>
        /\ call'.name = "update"
        /\ plugin # None
        /\ Self.loader # None
        /\ loaders[Self.loader[1]].scene = Some(OkResult)
        /\ \E h \in DOMAIN scenes' \ DOMAIN scenes :
              /\ scenes'[h] = ScenePath
              /\ plugin'[1].scene = h
        /\ \A i \in DOMAIN sent' :
              sent'[i].kind = "Visibility" =>
                  /\ sent'[i].destination = "overlay_grid"
                  /\ sent'[i].value = Some(FALSE)]_vars

C2_Witness ==
    /\ call.name = "update"
    /\ call.fetched = Some(OkResult)
    /\ SentOfKind("Visibility") # {}

\* The loader holds an Ok result that update has not fetched yet.
OkReady ==
    /\ plugin # None
    /\ Self.loader # None
    /\ loaders[Self.loader[1]].scene = Some(OkResult)

\* The loaded scene is in the container, is the game's scene, and the overlay
\* has been told to hide.
Loaded ==
    /\ plugin # None
    /\ ui.visibility_sent >= 1
    /\ Self.scene \in LoadedHandles(scenes)

\* C3: without an override scene, once the loader has produced Ok(scene) and
\* the host keeps calling update, the scene is eventually in the scene
\* container and the visibility(false) message for the overlay has been sent.
C3_LoadEventuallyShown == OkReady ~> Loaded

C3_Witness ==
    /\ Loaded
    /\ Self.loader # None
    /\ loaders[Self.loader[1]].finished
    /\ call.added = Some(Self.scene)

\* C4: update calls fetch_result exactly once when Game.loader is Some and
\* never when it is None; no other callback polls the loader.
C4_PolledOncePerUpdate ==
    /\ call.name = "update" =>
           call.fetch_calls = IF Self.loader # None THEN 1 ELSE 0
    /\ call.name # "update" => call.fetch_calls = 0

C4_Witness ==
    /\ call.name = "update"
    /\ call.fetch_calls = 1
    /\ call.fetched = None
    /\ is_some(Self.scene)

\* C5: for Resized(size) on_os_event sends exactly two messages to
\* overlay_grid, width = size.width and then height = size.height; for every
\* other event it sends nothing and leaves every field of Game unchanged.
C5_ResizeMessages ==
    /\ [](call.name = "on_os_event" =>
            LET e == call.event[1]
            IN IF ResizedEvent(e)
                  THEN /\ Len(sent) = 2
                       /\ SentTo("overlay_grid") = {1, 2}
                       /\ sent[1].kind = "Width"
                       /\ sent[1].value = Some(e.size[1].width * F32Unit)
                       /\ sent[2].kind = "Height"
                       /\ sent[2].value = Some(e.size[1].height * F32Unit)
                  ELSE sent = <<>>)
    /\ [][(call'.name = "on_os_event" /\ ~ResizedEvent(call'.event[1]) /\ plugin # None)
            => plugin' = plugin]_vars

C5_Witness ==
    /\ call.name = "on_os_event"
    /\ ResizedEvent(call.event[1])
    /\ call.event[1].size[1].width # call.event[1].size[1].height
    /\ Len(sent) = 2

\* C6: an update call sends a text message to debug_text, carrying the
\* renderer's current statistics, if and only if the graphics context is
\* Initialized at that call; while it is uninitialized no message goes to
\* debug_text.
C6_StatisticsIffInitialized ==
    /\ call.name = "update" =>
           IF graphics_context = "Initialized"
              THEN /\ Cardinality(SentTo("debug_text")) = 1
                   /\ \A i \in SentTo("debug_text") :
                         /\ sent[i].kind = "Text"
                         /\ sent[i].value = Some(ToString(call.statistics[1]))
              ELSE SentTo("debug_text") = {}
    /\ graphics_context = "Uninitialized" =>
           SentTo("debug_text") = {} /\ SentOfKind("Text") = {}

C6_Witness ==
    /\ call.name = "update"
    /\ graphics_context = "Initialized"
    /\ call.statistics = Some(1)
    /\ SentOfKind("Text") # {}

\* C7: on_graphics_context_initialized sends the window's inner size as the
\* overlay's width and height; once a graphics-context-initialized or Resized
\* event has been handled, the last width and height sent to overlay_grid are
\* the last window size the host reported.
C7_OverlayTracksWindow ==
    /\ call.name = "on_graphics_context_initialized" =>
           /\ Len(sent) = 2
           /\ SentTo("overlay_grid") = {1, 2}
           /\ sent[1].kind = "Width"
           /\ sent[1].value = Some(call.inner_size[1].width * F32Unit)
           /\ sent[2].kind = "Height"
           /\ sent[2].value = Some(call.inner_size[1].height * F32Unit)
    /\ (\/ graphics_context = "Initialized"
        \/ ui.overlay_width # None
        \/ ui.overlay_height # None) =>
           /\ ui.overlay_width = Some(window.width * F32Unit)
           /\ ui.overlay_height = Some(window.height * F32Unit)

C7_Witness ==
    /\ call.name = "on_graphics_context_initialized"
    /\ call.inner_size[1].width # call.inner_size[1].height
    /\ ui.overlay_width = Some(window.width * F32Unit)
    /\ ui.overlay_height = Some(window.height * F32Unit)

\* The loader holds an Err result that update has not fetched yet.
ErrReady ==
    /\ plugin # None
    /\ Self.loader # None
    /\ loaders[Self.loader[1]].scene = Some(ErrResult)

\* C8: when the loader returns Err, update only logs it: Game.scene and the
\* scene container are unchanged, no visibility message is sent, Game.loader
\* stays Some, and the progress message and the statistics text still go out.
C8_ErrOnlyLogged ==
    [][(ErrReady /\ call'.name = "update" /\ call'.fetched = Some(ErrResult)) =>
        /\ call'.logged = <<"VisitError">>
        /\ plugin'[1].scene = Self.scene
        /\ scenes' = scenes
        /\ ui'.visibility_sent = ui.visibility_sent
        /\ \A i \in DOMAIN sent' : sent'[i].kind # "Visibility"
        /\ plugin'[1].loader = Self.loader
        /\ \E i \in DOMAIN sent' :
              sent'[i].kind = "Progress" /\ sent'[i].destination = "progress_bar"
        /\ graphics_context = "Initialized" =>
              \E i \in DOMAIN sent' :
                  sent'[i].kind = "Text" /\ sent'[i].destination = "debug_text"]_vars

C8_Witness ==
    /\ call.name = "update"
    /\ call.fetched = Some(ErrResult)
    /\ call.logged # <<>>
    /\ Self.loader # None
    /\ graphics_context = "Initialized"

\* C9: every update call sends exactly one progress message, to
\* progress_bar, with value loading_progress / 100 (within 0..1), whether or
\* not a loader exists, the scene is loaded or the load failed; in one update
\* a visibility message comes before the progress message and the statistics
\* text after it.
C9_OneProgressPerUpdate ==
    call.name = "update" =>
        /\ Cardinality(SentOfKind("Progress")) = 1
        /\ \A i \in SentOfKind("Progress") :
              /\ sent[i].destination = "progress_bar"
              /\ sent[i].value[1] * 100 = call.loading_progress[1] * F32Unit
              /\ sent[i].value[1] \in 0..F32Unit
              /\ \A j \in SentOfKind("Visibility") : j < i
              /\ \A j \in SentOfKind("Text") : j > i
        /\ SentOfKind("Progress") \cup SentOfKind("Visibility") \cup SentOfKind("Text")
               = DOMAIN sent

C9_Witness ==
    /\ call.name = "update"
    /\ call.loading_progress = Some(37)
    /\ Len(sent) = 3
    /\ sent[1].kind = "Visibility"
    /\ sent[2].kind = "Progress"
    /\ sent[3].kind = "Text"

\* C10: over any sequence of update calls the loaded scene is added to the
\* container at most once and the overlay-hide message is sent at most once,
\* although Game.loader is never reset to None and update keeps polling it;
\* once Game.scene has been set it never changes again.
C10_LoadedAtMostOnce ==
    /\ [](/\ Cardinality(LoadedHandles(scenes)) <= 1
          /\ ui.visibility_sent <= 1)
    /\ [][plugin # None =>
            /\ plugin'[1].loader = Self.loader
            /\ is_some(Self.scene) => plugin'[1].scene = Self.scene]_vars

C10_Witness ==
    /\ call.name = "update"
    /\ call.fetch_calls = 1
    /\ call.added = None
    /\ ui.visibility_sent = 1
    /\ Cardinality(LoadedHandles(scenes)) = 1

====
